---- MODULE Spec2Model ----
(***************************************************************************)
(* magicbooks: the search for the best books of a "book test" trick.       *)
(*                                                                         *)
(* The repository holds two variants of one program: magicbooks.py, which  *)
(* ranks the combinations on (score, reps, combo), and main.py, which      *)
(* ranks them on (score, chaps, combo).  A behaviour of this module is one *)
(* run of main() of one variant, from the parsed library to the listing.   *)
(*                                                                         *)
(* Encoding.  A chapter token is 0 or 1 (the default tokens '0' and '1',   *)
(* whose character order is the integer order).  A chapter string is a     *)
(* sequence of tokens.  A title is a positive integer, the rank of the     *)
(* title string in string order (A = 1, B = 2, ...).  A book is the list   *)
(* the program builds: <<idx, title>> when the library gives no chapter    *)
(* line, <<idx, title, chapters>> otherwise.                               *)
(***************************************************************************)
EXTENDS Integers, Sequences, FiniteSets, TLC

VARIABLES
    variant,    \* "magicbooks" or "main": the program that runs
    args,       \* parsed arguments: books, chapters, list, randomize
    library,    \* the books as read from the library file (never changes)
    books,      \* the program's `books`
    pc,         \* position in main()
    si,         \* books passed by the sanity loop
    indices,    \* itertools.combinations' index tuple (1-based)
    combos,     \* the program's `combos`: (score, reps|chaps, combo)
    scorelog,   \* the "Score:" debug lines: (score, reps) / (score, chaps, reps)
    header,     \* the "Best ... out of ..." line
    ranked,     \* sorted(combos)[:args.list]
    output,     \* the listed results so far
    minscore,   \* main.py's minscore
    toast,      \* main.py's notification
    status,     \* "running", "ok" (exit 0) or "error" (exit 1)
    error       \* which error ended the run

vars == <<variant, args, library, books, pc, si, indices, combos, scorelog,
          header, ranked, output, minscore, toast, status, error>>

----------------------------------------------------------------------------
(* Bounds of the model *)

MaxBooks == 3

MaxLen == 2

MaxTokens == 4

MaxChapters == 4

MaxCells == 9

MaxList == 3

Tokens == {0, 1}

Variants == {"magicbooks", "main"}

----------------------------------------------------------------------------
(* Helpers *)

Min(a, b) == IF a <= b THEN a ELSE b

Range(s) == {s[i] : i \in DOMAIN s}

RECURSIVE Sum(_)
Sum(s) == IF s = <<>> THEN 0 ELSE Head(s) + Sum(Tail(s))

RECURSIVE Binomial(_, _)
Binomial(n, k) ==
    IF k = 0 THEN 1
    ELSE IF n = 0 THEN 0
    ELSE Binomial(n - 1, k - 1) + Binomial(n - 1, k)

Strings(len) == [1..len -> Tokens]

\* faulty variant: one element too many
TakeOneMore(s, n) == SubSeq(s, 1, Min(n + 1, Len(s)))

\* seq[:n] for n >= 0
Take(s, n) == SubSeq(s, 1, Min(n, Len(s)))

\* the ascending sequence of a finite set of integers
RECURSIVE Ascending(_)
Ascending(S) ==
    IF S = {} THEN <<>>
    ELSE LET m == CHOOSE x \in S : \A y \in S : x <= y
         IN  <<m>> \o Ascending(S \ {m})

----------------------------------------------------------------------------
(* Python's ordering of sequences: the first differing element decides,   *)
(* and a proper prefix is smaller.                                         *)

\* the first index where a and b differ, or one behind the shorter of them
FirstDifference(a, b) ==
    LET m == Min(Len(a), Len(b))
    IN  CHOOSE i \in 1..(m + 1) :
          /\ \A j \in 1..(i - 1) : a[j] = b[j]
          /\ i <= m => a[i] # b[i]

\* lists of integers (reps), tuples of positions, chapter strings
IntSeqLess(a, b) ==
    LET i == FirstDifference(a, b)
    IN  IF i <= Min(Len(a), Len(b)) THEN a[i] < b[i] ELSE Len(a) < Len(b)

\* lists of tuples of positions (chaps)
ChapsLess(a, b) ==
    LET i == FirstDifference(a, b)
    IN  IF i <= Min(Len(a), Len(b)) THEN IntSeqLess(a[i], b[i])
                                    ELSE Len(a) < Len(b)

\* faulty variant: the title is compared before the id
BookLessTitleFirst(a, b) ==
    IF a[2] # b[2] THEN a[2] < b[2]
    ELSE IF a[1] # b[1] THEN a[1] < b[1]
    ELSE IF Len(a) = 3 /\ Len(b) = 3 THEN IntSeqLess(a[3], b[3])
    ELSE Len(a) < Len(b)

\* a book is the list [idx, title, chapters]
BookLess(a, b) ==
    IF a[1] # b[1] THEN a[1] < b[1]
    ELSE IF a[2] # b[2] THEN a[2] < b[2]
    ELSE IF Len(a) = 3 /\ Len(b) = 3 THEN IntSeqLess(a[3], b[3])
    ELSE Len(a) < Len(b)

\* faulty variant: the order of the combos is reversed
ComboGreater(a, b) ==
    LET i == FirstDifference(a, b)
    IN  IF i <= Min(Len(a), Len(b)) THEN BookLess(b[i], a[i])
                                    ELSE Len(b) < Len(a)

\* a combo is a tuple of books
ComboLess(a, b) ==
    LET i == FirstDifference(a, b)
    IN  IF i <= Min(Len(a), Len(b)) THEN BookLess(a[i], b[i])
                                    ELSE Len(a) < Len(b)

----------------------------------------------------------------------------
(* The scoring of one combo (the body of the loop over the combinations)   *)

\* data = tuple(zip(*combo))[2]: the chapter strings of the members
Data(combo) == [i \in 1..Len(combo) |-> combo[i][3]]

\* zip(*data) stops at the shortest string
ZipLen(data) ==
    IF data = <<>> THEN 0
    ELSE CHOOSE m \in {Len(data[i]) : i \in 1..Len(data)} :
             \A i \in 1..Len(data) : m <= Len(data[i])

\* faulty variant: the word of a position is the token of the first member alone
WordsOfFirst(data) ==
    [p \in 1..ZipLen(data) |-> <<data[1][p]>>]

\* words = "".join(_) for _ in zip(*data): one word per chapter position,
\* the members' tokens at that position in member order
Words(data) ==
    [p \in 1..ZipLen(data) |-> [i \in 1..Len(data) |-> data[i][p]]]

\* counts = collections.Counter(words): word -> number of positions with it
Counts(words) ==
    [w \in Range(words) |-> Cardinality({p \in 1..Len(words) : words[p] = w})]

\* sorted(..., reverse=True) of the counts of the words in W
RECURSIVE SortedDescending(_, _)
SortedDescending(counts, W) ==
    IF W = {} THEN <<>>
    ELSE LET w == CHOOSE x \in W : \A y \in W : counts[y] <= counts[x]
         IN  <<counts[w]>> \o SortedDescending(counts, W \ {w})

\* faulty variant: a word that occurs twice is not counted
RepsOverTwo(counts) ==
    SortedDescending(counts, {w \in DOMAIN counts : counts[w] > 2})

\* reps = sorted((_ for _ in counts.values() if _ > 1), reverse=True)
Reps(counts) ==
    SortedDescending(counts, {w \in DOMAIN counts : counts[w] > 1})

\* faulty variant: the groups are not discounted
ScoreSumOnly(reps) == Sum(reps)

\* score = sum(reps) - len(reps)
Score(reps) == Sum(reps) - Len(reps)

\* faulty variant: the positions are counted from 0
PositionsFromZero(words, w) ==
    Ascending({p - 1 : p \in {q \in 1..Len(words) : words[q] = w}})

\* ewords = tuple((_i+1, _w) for _i, _w in enumerate(words)), then
\* tuple(_[0] for _ in ewords if _[1]==_w): the 1-based positions of word w
Positions(words, w) == Ascending({p \in 1..Len(words) : words[p] = w})

\* sorted(...) of a set of tuples of positions
RECURSIVE SortedTuples(_)
SortedTuples(T) ==
    IF T = {} THEN <<>>
    ELSE LET t == CHOOSE x \in T : \A y \in T : x = y \/ IntSeqLess(x, y)
         IN  <<t>> \o SortedTuples(T \ {t})

\* chaps = sorted(tuple(...) for _w in set(words) if counts[_w] > 1)
Chaps(words, counts) ==
    SortedTuples({Positions(words, w) : w \in {x \in Range(words) : counts[x] > 1}})

\* magicbooks.py: combos.append((score, reps, combo))
EntryMagicbooks(combo) ==
    LET words  == Words(Data(combo))
        counts == Counts(words)
        reps   == Reps(counts)
    IN  <<Score(reps), reps, combo>>

\* faulty variant: the score is the number of groups
EntryMainGroups(combo) ==
    LET words  == Words(Data(combo))
        counts == Counts(words)
        chaps  == Chaps(words, counts)
    IN  <<Len(chaps), chaps, combo>>

\* main.py: combos.append((score, chaps, combo))
EntryMain(combo) ==
    LET words  == Words(Data(combo))
        counts == Counts(words)
        chaps  == Chaps(words, counts)
        reps   == Reps(counts)
    IN  <<Score(reps), chaps, combo>>

Entry(v, combo) ==
    IF v = "magicbooks" THEN EntryMagicbooks(combo) ELSE EntryMain(combo)

\* log.debug("Score: ...", score, reps) / (..., score, chaps, reps)
DebugLine(v, combo) ==
    LET e    == Entry(v, combo)
        reps == Reps(Counts(Words(Data(combo))))
    IN  IF v = "magicbooks" THEN <<e[1], reps>> ELSE <<e[1], e[2], reps>>

----------------------------------------------------------------------------
(* itertools.combinations(books, r): index tuples in lexicographic order   *)

FirstIndices(r) == [i \in 1..r |-> i]

\* some index is not at its last value i + n - r
HasNextIndices(ind, n) ==
    \E i \in 1..Len(ind) : ind[i] # i + n - Len(ind)

\* faulty variant: the indices to the right all get the same value
NextIndicesFlat(ind, n) ==
    LET r == Len(ind)
        i == CHOOSE x \in 1..r :
                 /\ ind[x] # x + n - r
                 /\ \A y \in (x + 1)..r : ind[y] = y + n - r
    IN  [j \in 1..r |-> IF j < i THEN ind[j] ELSE ind[i] + 1]

\* the rightmost index not at its last value is incremented and the ones
\* to its right follow it
NextIndices(ind, n) ==
    LET r == Len(ind)
        i == CHOOSE x \in 1..r :
                 /\ ind[x] # x + n - r
                 /\ \A y \in (x + 1)..r : ind[y] = y + n - r
    IN  [j \in 1..r |-> IF j < i THEN ind[j] ELSE ind[i] + 1 + (j - i)]

ComboAt(bs, ind) == [i \in 1..Len(ind) |-> bs[ind[i]]]

\* every index tuple from ind on, in the order the iterator yields them
RECURSIVE IndicesFrom(_, _)
IndicesFrom(ind, n) ==
    IF HasNextIndices(ind, n)
    THEN <<ind>> \o IndicesFrom(NextIndices(ind, n), n)
    ELSE <<ind>>

\* list(itertools.combinations(bs, r))
Combinations(bs, r) ==
    IF r > Len(bs) THEN <<>>
    ELSE LET all == IndicesFrom(FirstIndices(r), Len(bs))
         IN  [c \in 1..Len(all) |-> ComboAt(bs, all[c])]

----------------------------------------------------------------------------
(* sorted(combos): a stable sort on Python's tuple order                   *)

\* (score, reps, combo) < (score, reps, combo) in magicbooks.py,
\* (score, chaps, combo) < (score, chaps, combo) in main.py
EntryLess(v, a, b) ==
    IF a[1] # b[1] THEN a[1] < b[1]
    ELSE IF a[2] # b[2]
         THEN IF v = "magicbooks" THEN IntSeqLess(a[2], b[2])
                                  ELSE ChapsLess(a[2], b[2])
    ELSE ComboLess(a[3], b[3])

\* x goes behind every element that is not greater than it
Insert(v, t, x) ==
    LET pos == Cardinality({i \in 1..Len(t) : ~EntryLess(v, x, t[i])})
    IN  SubSeq(t, 1, pos) \o <<x>> \o SubSeq(t, pos + 1, Len(t))

RECURSIVE Sorted(_, _)
Sorted(v, s) ==
    IF s = <<>> THEN <<>>
    ELSE Insert(v, Sorted(v, SubSeq(s, 1, Len(s) - 1)), s[Len(s)])

----------------------------------------------------------------------------
(* The libraries and arguments the runs are drawn from                     *)

\* a library of n books: ids 1..n in file order (enumerate(..., 1)), a
\* title each, and per book a chapter line or none (data[i] = <<>>: a
\* chapter line is never empty, the loader splits the file at empty lines)
MakeLibrary(n, title, data) ==
    [i \in 1..n |-> IF data[i] = <<>> THEN <<i, title[i]>>
                                      ELSE <<i, title[i], data[i]>>]

\* chapter lines of 1..MaxLen tokens
ChapterLines == UNION {Strings(len) : len \in 1..MaxLen}

\* libraries of n books, complete or not, of at most MaxTokens tokens
Libraries(n) ==
    {MakeLibrary(n, [i \in 1..n |-> 1], data) :
        data \in {d \in [1..n -> ChapterLines \cup {<<>>}] :
                     Sum([i \in 1..n |-> Len(d[i])]) <= MaxTokens}}

\* with --randomize the chapter line is optional and overwritten
RandomizeLibraries(n) ==
    {MakeLibrary(n, [i \in 1..n |-> 1], data) : data \in [1..n -> {<<>>, <<0>>}]}

\* the titles of a library: all the same, or all different and descending
TitleSchemes(n) == {[i \in 1..n |-> 1], [i \in 1..n |-> n + 1 - i]}

\* complete libraries of n books with exactly c chapters each
CompleteLibraries(n, c) ==
    {MakeLibrary(n, title, data) :
        title \in TitleSchemes(n), data \in [1..n -> Strings(c)]}

\* the example library: A="0011", B="0101", C="0110", D="1100"
ExampleLibrary ==
    << <<1, 1, <<0, 0, 1, 1>> >>,
       <<2, 2, <<0, 1, 0, 1>> >>,
       <<3, 3, <<0, 1, 1, 0>> >>,
       <<4, 4, <<1, 1, 0, 0>> >> >>

Start(v, a, lib) ==
    /\ variant = v
    /\ args = a
    /\ library = lib
    /\ books = lib
    /\ pc = "check"
    /\ si = 0
    /\ indices = <<>>
    /\ combos = <<>>
    /\ scorelog = <<>>
    /\ header = <<>>
    /\ ranked = <<>>
    /\ output = <<>>
    /\ minscore = -1
    /\ toast = "none"
    /\ status = "running"
    /\ error = "none"

Arguments(k, c, l, rnd) ==
    [books |-> k, chapters |-> c, list |-> l, randomize |-> rnd]

\* runs on any library, complete or not; a run with --randomize draws at
\* most MaxTokens tokens
Init ==
    \E n \in 0..MaxBooks, rnd \in BOOLEAN :
      \E lib \in (IF rnd THEN RandomizeLibraries(n) ELSE Libraries(n)) :
        \E v \in Variants, k \in 1..MaxBooks, c \in 1..MaxLen, l \in 1..MaxList :
          /\ rnd => n * c <= MaxTokens
          /\ Start(v, Arguments(k, c, l, rnd), lib)

\* runs on complete libraries of at most MaxCells tokens
InitScore ==
    \E n \in 1..MaxBooks, c \in 1..MaxChapters :
      /\ n * c <= MaxCells
      /\ \E lib \in CompleteLibraries(n, c) :
           \E v \in Variants, k \in 1..n, l \in 1..MaxList :
             Start(v, Arguments(k, c, l, FALSE), lib)

\* runs on the example library
InitExample ==
    \E v \in Variants, k \in 1..(Len(ExampleLibrary) + 1),
       c \in 1..(Len(ExampleLibrary[1][3]) + 1), l \in 1..MaxList :
      Start(v, Arguments(k, c, l, FALSE), ExampleLibrary)

----------------------------------------------------------------------------
(* main()                                                                  *)

Fail(why) ==
    /\ pc' = "failed"
    /\ status' = "error"
    /\ error' = why

\* if len(books) < args.books: log.error(...); return 1
CheckBooks ==
    /\ pc = "check"
    /\ IF Len(books) < args.books
       THEN Fail("insufficient")
       ELSE pc' = "prepare" /\ UNCHANGED <<status, error>>
    /\ UNCHANGED <<variant, args, library, books, si, indices, combos, scorelog,
                   header, ranked, output, minscore, toast>>

\* _[:2] + [_[2][:args.chapters]]
Truncated(book, c) == <<book[1], book[2], Take(book[3], c)>>

\* with --randomize every book gets args.chapters random tokens; otherwise
\* the chapter strings are cut to args.chapters, and _[2] raises IndexError
\* for a book without a chapter line (main() raises, the program exits 1)
PrepareChapters ==
    /\ pc = "prepare"
    /\ IF args.randomize
       THEN \E rnd \in [1..Len(books) -> Strings(args.chapters)] :
              /\ books' = [i \in 1..Len(books) |->
                              <<books[i][1], books[i][2], rnd[i]>>]
              /\ pc' = "sanity"
              /\ UNCHANGED <<status, error>>
       ELSE IF \E i \in 1..Len(books) : Len(books[i]) < 3
            THEN Fail("IndexError") /\ UNCHANGED books
            ELSE /\ books' = [i \in 1..Len(books) |->
                                 Truncated(books[i], args.chapters)]
                 /\ pc' = "sanity"
                 /\ UNCHANGED <<status, error>>
    /\ UNCHANGED <<variant, args, library, si, indices, combos, scorelog,
                   header, ranked, output, minscore, toast>>

\* faulty variant: one chapter less is let through
TooShortByTwo(chapters, c) == Len(chapters) < c - 1

\* len(chapters) < args.chapters
TooShort(chapters, c) == Len(chapters) < c

\* one round of "for book in books" of the sanity tests
SanityTest ==
    /\ pc = "sanity"
    /\ si < Len(books)
    /\ LET book == books[si + 1]
       IN  IF Len(book) # 3
           THEN Fail("incomplete") /\ UNCHANGED si
           ELSE IF ~args.randomize /\ TooShort(book[3], args.chapters)
           THEN Fail("chapters") /\ UNCHANGED si
           ELSE si' = si + 1 /\ UNCHANGED <<pc, status, error>>
    /\ UNCHANGED <<variant, args, library, books, indices, combos, scorelog,
                   header, ranked, output, minscore, toast>>

\* the sanity loop is over: combos = [] and the iterator over the
\* combinations is made (it yields nothing when args.books > len(books))
BeginScoring ==
    /\ pc = "sanity"
    /\ si = Len(books)
    /\ combos' = <<>>
    /\ indices' = FirstIndices(args.books)
    /\ pc' = IF args.books > Len(books) THEN "rank" ELSE "scoring"
    /\ UNCHANGED <<variant, args, library, books, si, scorelog,
                   header, ranked, output, minscore, toast, status, error>>

\* one round of "for combo in itertools.combinations(books, args.books)"
ScoreCombo ==
    /\ pc = "scoring"
    /\ LET combo == ComboAt(books, indices)
       IN  /\ combos' = Append(combos, Entry(variant, combo))
           /\ scorelog' = Append(scorelog, DebugLine(variant, combo))
    /\ IF HasNextIndices(indices, Len(books))
       THEN indices' = NextIndices(indices, Len(books)) /\ UNCHANGED pc
       ELSE pc' = "rank" /\ UNCHANGED indices
    /\ UNCHANGED <<variant, args, library, books, si, header, ranked, output,
                   minscore, toast, status, error>>

\* the "Best ... out of ..." line, sorted(combos)[:args.list], and in
\* main.py minscore = args.chapters
Rank ==
    /\ pc = "rank"
    /\ header' = IF variant = "magicbooks"
                 THEN <<args.list, Len(combos), args.books, Len(books)>>
                 ELSE <<args.list, Len(combos), args.books, Len(books),
                        args.chapters>>
    /\ ranked' = Take(Sorted(variant, combos), args.list)
    /\ minscore' = IF variant = "main" THEN args.chapters ELSE minscore
    /\ pc' = "listing"
    /\ UNCHANGED <<variant, args, library, books, si, indices, combos, scorelog,
                   output, toast, status, error>>

\* the lines listed for one result: score, reps or chaps, whether
\* " NO DUPLICATES, hooray! :D" is shown, and book[:2] of every member
Listed(e) ==
    <<e[1], e[2], e[1] = 0, [i \in 1..Len(e[3]) |-> <<e[3][i][1], e[3][i][2]>>]>>

\* one round of the loop over sorted(combos)[:args.list]
ListEntry ==
    /\ pc = "listing"
    /\ Len(output) < Len(ranked)
    /\ LET e == ranked[Len(output) + 1]
       IN  /\ output' = Append(output, Listed(e))
           /\ minscore' = IF variant = "main" THEN Min(e[1], minscore)
                                              ELSE minscore
    /\ UNCHANGED <<variant, args, library, books, pc, si, indices, combos,
                   scorelog, header, ranked, toast, status, error>>

\* the toast main.py shows when the android module is there
Toast(android) ==
    IF ~android THEN "none"
    ELSE IF minscore = 0 THEN "perfect"
    ELSE IF minscore = 1 THEN "almost"
    ELSE "meh"

\* the listing is over: magicbooks.py returns; main.py returns too, after
\* the toast when the android module is there
Return ==
    /\ pc = "listing"
    /\ Len(output) = Len(ranked)
    /\ \E android \in (IF variant = "main" THEN BOOLEAN ELSE {FALSE}) :
         toast' = Toast(android)
    /\ pc' = "done"
    /\ status' = "ok"
    /\ UNCHANGED <<variant, args, library, books, si, indices, combos, scorelog,
                   header, ranked, output, minscore, error>>

Next ==
    \/ CheckBooks
    \/ PrepareChapters
    \/ SanityTest
    \/ BeginScoring
    \/ ScoreCombo
    \/ Rank
    \/ ListEntry
    \/ Return

Spec == Init /\ [][Next]_vars

SpecScore == InitScore /\ [][Next]_vars

SpecExample == InitExample /\ [][Next]_vars

----------------------------------------------------------------------------
(* What the claims speak about.  A statement about every scored           *)
(* combination is checked where the loop over the combinations has ended   *)
(* (pc = "rank"), over all of `combos`.                                    *)

\* the loop over the combinations has ended
Enumerated == pc \in {"rank", "listing", "done"}

\* sorted(combos)[:args.list] has been taken
Ranked == pc \in {"listing", "done"}

Members(e) == {e[3][i][1] : i \in 1..Len(e[3])}

Excess(n) == IF n > 1 THEN n - 1 ELSE 0

\* the token of member i of a combo at chapter position p
TokenAt(combo, i, p) == combo[i][3][p]

\* the word of a combo at chapter position p
WordAt(combo, p) == [i \in 1..Len(combo) |-> TokenAt(combo, i, p)]

\* per-token collisions: at every position and for every token, the
\* members that carry this token at this position, less one
PerTokenScore(combo, c) ==
    LET toks == Ascending(Tokens)
        at(p) == Sum([j \in 1..Len(toks) |->
                        Excess(Cardinality({i \in 1..Len(combo) :
                                              TokenAt(combo, i, p) = toks[j]}))])
    IN  Sum([p \in 1..c |-> at(p)])

\* per-word collisions: for every distinct word, the positions that carry
\* this word, less one (the word is counted at its first position)
PerWordScore(combo, c) ==
    LET first(p) == \A q \in 1..(p - 1) : WordAt(combo, q) # WordAt(combo, p)
        count(p) == Cardinality({q \in 1..c : WordAt(combo, q) = WordAt(combo, p)})
    IN  Sum([p \in 1..c |-> IF first(p) THEN Excess(count(p)) ELSE 0])

TokensDistinctEverywhere(combo, c) ==
    \A p \in 1..c : \A i, j \in 1..Len(combo) :
        i # j => TokenAt(combo, i, p) # TokenAt(combo, j, p)

WordsDistinct(combo, c) ==
    \A p, q \in 1..c : p # q => WordAt(combo, p) # WordAt(combo, q)

\* C1 (as stated): the score of every scored combination is its per-token
\* collision score.
C1_PerTokenScore ==
    pc = "rank" =>
        \A x \in 1..Len(combos) :
            combos[x][1] = PerTokenScore(combos[x][3], args.chapters)

\* C1 (amended): the score of every scored combination is its per-word
\* collision score: the sum, over the distinct words of the chapter_count
\* positions, of (number of positions with this word - 1).
C1_PerWordScore ==
    pc = "rank" =>
        \A x \in 1..Len(combos) :
            combos[x][1] = PerWordScore(combos[x][3], args.chapters)

C1_Witness ==
    pc = "rank" /\ \E x \in 1..Len(combos) :
        /\ Len(combos[x][3]) >= 2
        /\ combos[x][1] >= 2
        /\ combos[x][1] # PerTokenScore(combos[x][3], args.chapters)

\* C2 (as stated): a combination scores 0, and is listed with "NO
\* DUPLICATES", iff at every position the members' tokens are pairwise
\* distinct.
C2_ZeroIffTokensDistinct ==
    /\ pc = "rank" =>
         \A x \in 1..Len(combos) :
           combos[x][1] = 0 <=> TokensDistinctEverywhere(combos[x][3], args.chapters)
    /\ \A x \in 1..Len(output) :
         output[x][3] <=> TokensDistinctEverywhere(ranked[x][3], args.chapters)

\* C2 (amended): a combination scores 0, and is listed with "NO
\* DUPLICATES", iff the words of its chapter_count positions are pairwise
\* distinct.
C2_ZeroIffWordsDistinct ==
    /\ pc = "rank" =>
         \A x \in 1..Len(combos) :
           combos[x][1] = 0 <=> WordsDistinct(combos[x][3], args.chapters)
    /\ \A x \in 1..Len(output) :
         output[x][3] <=> WordsDistinct(ranked[x][3], args.chapters)

C2_Witness ==
    /\ \E x \in 1..Len(output) :
         /\ output[x][3]
         /\ Len(ranked[x][3]) >= 2
         /\ ~TokensDistinctEverywhere(ranked[x][3], args.chapters)
    /\ \E x \in 1..Len(output) : ~output[x][3]

ExampleRun ==
    /\ library = ExampleLibrary
    /\ args.books = 3
    /\ args.chapters = 4
    /\ ~args.randomize
    /\ args.list >= 2
    /\ pc = "done"

\* where the combination of the books ids is listed, 0 if it is not
ListedAt(ids) ==
    IF \E x \in 1..Len(output) : {output[x][4][i][1] : i \in 1..Len(output[x][4])} = ids
    THEN CHOOSE x \in 1..Len(output) :
             {output[x][4][i][1] : i \in 1..Len(output[x][4])} = ids
    ELSE 0

\* C3 (as stated): on the example library with subset_size 3 and
\* chapter_count 4, {A,B,C} scores 5, {A,B,D} scores less and is listed
\* before {A,B,C}.
C3_ExampleAsStated ==
    ExampleRun =>
        LET abc == ListedAt({1, 2, 3})
            abd == ListedAt({1, 2, 4})
        IN  /\ abc > 0
            /\ abd > 0
            /\ output[abc][1] = 5
            /\ output[abd][1] < output[abc][1]
            /\ abd < abc

\* C3 (amended): on the example library with subset_size 3 and
\* chapter_count 4, {A,B,C} scores 0, {A,B,D} scores 0 as well, and
\* {A,B,C} is listed before {A,B,D}.
C3_ExampleScores ==
    ExampleRun =>
        LET abc == ListedAt({1, 2, 3})
            abd == ListedAt({1, 2, 4})
        IN  /\ abc > 0
            /\ abd > 0
            /\ output[abc][1] = 0
            /\ output[abd][1] = 0
            /\ abc < abd

C3_Witness == ExampleRun /\ Len(output) >= 2

----------------------------------------------------------------------------

\* where an entry was appended to combos
EnumeratedAt(e) == CHOOSE x \in 1..Len(combos) : combos[x] = e

KeyLess(a, b) ==
    IF variant = "magicbooks" THEN IntSeqLess(a, b) ELSE ChapsLess(a, b)

\* a comes before b: by score, then by the secondary key, then by the
\* order of enumeration
Before(a, b) ==
    \/ a[1] < b[1]
    \/ a[1] = b[1] /\ a[2] # b[2] /\ KeyLess(a[2], b[2])
    \/ a[1] = b[1] /\ a[2] = b[2] /\ EnumeratedAt(a) < EnumeratedAt(b)

\* C4: the ranked list is ordered by score, then by the secondary key
\* (reps or chaps) in lexicographic order, then by order of enumeration,
\* and every combination left out comes after every one in the list.
C4_RankOrder ==
    Ranked =>
        /\ \A x, y \in 1..Len(ranked) : x < y => Before(ranked[x], ranked[y])
        /\ \A x \in 1..Len(ranked) : \A y \in 1..Len(combos) :
             combos[y] \notin Range(ranked) => Before(ranked[x], combos[y])

C4_Witness ==
    /\ Ranked
    /\ \E x, y \in 1..Len(ranked) :
         /\ x < y
         /\ ranked[x][1] = ranked[y][1]
         /\ ranked[x][2] = ranked[y][2]
         /\ ranked[x][3][1][2] > ranked[y][3][1][2]
    /\ \E x, y \in 1..Len(ranked) :
         /\ x < y
         /\ ranked[x][1] = ranked[y][1]
         /\ ranked[x][2] # ranked[y][2]
         /\ EnumeratedAt(ranked[x]) > EnumeratedAt(ranked[y])

\* C5: with 1 <= k <= n the loop scores C(n, k) combinations, one for
\* every k-element set of book ids and none twice; one when k = n.
C5_EveryCombinationOnce ==
    LET n == Len(books)
        k == args.books
    IN  /\ Cardinality({Members(combos[x]) : x \in 1..Len(combos)}) = Len(combos)
        /\ Enumerated =>
             /\ Len(combos) = Binomial(n, k)
             /\ {Members(combos[x]) : x \in 1..Len(combos)}
                  = {S \in SUBSET (1..n) : Cardinality(S) = k}
             /\ \A x \in 1..Len(combos) : Len(combos[x][3]) = k
             /\ k = n => Len(combos) = 1
        /\ Ranked => header[2] = Binomial(n, k)

C5_Witness ==
    /\ Enumerated
    /\ Len(books) = 3
    /\ args.books = 2
    /\ Len(combos) = 3

\* C6: the listed results are the first min(list_size, C(n, k)) entries of
\* the sorted combinations, without duplicate or padding.
C6_ListIsPrefix ==
    pc = "done" =>
        LET all   == Sorted(variant, combos)
            count == Min(args.list, Binomial(Len(books), args.books))
        IN  /\ status = "ok"
            /\ Len(output) = count
            /\ \A x \in 1..Len(output) : output[x] = Listed(all[x])
            /\ \A x, y \in 1..Len(output) : x # y => output[x][4] # output[y][4]
            /\ \A x \in 1..Len(output) : \E y \in 1..Len(combos) :
                 output[x] = Listed(combos[y])

C6_Witness ==
    /\ pc = "done"
    /\ args.list > Len(combos)
    /\ Len(combos) >= 2
    /\ Len(output) = Len(combos)

\* the library cannot be used: too few books, or (without --randomize) a
\* book whose chapter data is missing or shorter than chapter_count
Unusable ==
    \/ Len(library) < args.books
    \/ /\ ~args.randomize
       /\ \E i \in 1..Len(library) :
            \/ Len(library[i]) < 3
            \/ Len(library[i][3]) < args.chapters

\* C7: a run on an unusable library ends with an error status before any
\* combination is enumerated, scored or listed, and a run that ends in an
\* error has no partial results.
C7_FailFast ==
    /\ status = "error" =>
         /\ pc = "failed"
         /\ indices = <<>> /\ combos = <<>> /\ scorelog = <<>>
         /\ header = <<>> /\ ranked = <<>> /\ output = <<>>
    /\ Unusable =>
         /\ pc \in {"check", "prepare", "sanity", "failed"}
         /\ indices = <<>> /\ combos = <<>> /\ output = <<>>
         /\ pc = "failed" => status = "error"
         /\ pc # "failed" => ENABLED Next

C7_Witness ==
    /\ status = "error"
    /\ error = "chapters"
    /\ si >= 1
    /\ Len(library) >= args.books

----------------------------------------------------------------------------

MemberOrders(k) ==
    {f \in [1..k -> 1..k] : \A i, j \in 1..k : i # j => f[i] # f[j]}

\* C8: reordering the members of a scored combination changes neither its
\* score nor its reps.
C8_OrderInvariant ==
    pc = "rank" => \A x \in 1..Len(combos) :
        LET combo == combos[x][3]
            line  == scorelog[x]
        IN  \A f \in MemberOrders(Len(combo)) :
              LET other == [i \in 1..Len(combo) |-> combo[f[i]]]
                  reps  == Reps(Counts(Words(Data(other))))
              IN  /\ Score(reps) = combos[x][1]
                  /\ reps = line[Len(line)]
                  /\ Entry(variant, other)[1] = combos[x][1]

C8_Witness ==
    pc = "rank" /\ \E x \in 1..Len(combos) :
        /\ Len(combos[x][3]) = 3
        /\ combos[x][1] >= 1
        /\ combos[x][3][1][3] # combos[x][3][2][3]
        /\ combos[x][3][2][3] # combos[x][3][3][3]

OtherVariant == IF variant = "magicbooks" THEN "main" ELSE "magicbooks"

\* what the other variant lists for the same books and arguments
OtherOutput ==
    LET all == Combinations(books, args.books)
        es  == [x \in 1..Len(all) |-> Entry(OtherVariant, all[x])]
        top == Take(Sorted(OtherVariant, es), args.list)
    IN  [x \in 1..Len(top) |-> Listed(top[x])]

\* C9: both variants give every combination the same score, and their
\* lists carry the same scores position by position.
C9_SameScores ==
    /\ pc = "rank" =>
         \A x \in 1..Len(combos) :
           combos[x][1] = Entry(OtherVariant, combos[x][3])[1]
    /\ pc = "done" =>
         LET other == OtherOutput
         IN  /\ Len(output) = Len(other)
             /\ \A x \in 1..Len(output) : output[x][1] = other[x][1]

C9_Witness ==
    /\ pc = "done"
    /\ LET other == OtherOutput
       IN  \E x \in 1..Len(output) : output[x][4] # other[x][4]

\* C10: in main.py the chaps of every scored combination are disjoint
\* ascending groups of at least two positions of 1..chapter_count, their
\* sizes are the reps, the score is the sum of (size - 1), and so
\* 0 <= score <= chapter_count - 1 < the initial minscore.
C10_ChapsConsistent ==
    variant = "main" =>
        /\ pc = "rank" => \A x \in 1..Len(combos) :
             LET score == combos[x][1]
                 chaps == combos[x][2]
                 reps  == scorelog[x][3]
             IN  /\ \A g \in 1..Len(chaps) :
                       /\ Len(chaps[g]) >= 2
                       /\ \A i \in 1..Len(chaps[g]) :
                            chaps[g][i] \in 1..args.chapters
                       /\ \A i \in 1..(Len(chaps[g]) - 1) :
                            chaps[g][i] < chaps[g][i + 1]
                       /\ \A h \in 1..Len(chaps) :
                            g # h => Range(chaps[g]) \cap Range(chaps[h]) = {}
                 /\ Len(reps) = Len(chaps)
                 /\ \A m \in 2..args.chapters :
                       Cardinality({g \in 1..Len(chaps) : Len(chaps[g]) = m})
                         = Cardinality({g \in 1..Len(reps) : reps[g] = m})
                 /\ score = Sum([g \in 1..Len(chaps) |-> Len(chaps[g]) - 1])
                 /\ 0 <= score
                 /\ score <= args.chapters - 1
        /\ Ranked =>
             /\ \A x \in 1..Len(ranked) : ranked[x][1] < args.chapters
             /\ minscore <= args.chapters
             /\ output # <<>> => minscore < args.chapters

C10_Witness ==
    /\ variant = "main"
    /\ pc = "done"
    /\ \E x \in 1..Len(output) :
         /\ Len(output[x][2]) = 2
         /\ output[x][1] = 2
    /\ \E x \in 1..Len(output) : output[x][1] = args.chapters - 1

====
